---------------------------- MODULE Spec2Model ----------------------------
(***************************************************************************)
(* A model of hpat.ezre (src/src/hpat/ezre/__init__.py): the Cardinality   *)
(* value and its quantifier text, the Label display tree, and the Ezre     *)
(* expression nodes with their weak identity registry.                     *)
(*                                                                         *)
(* Text is modelled as a sequence of one-character strings, so that        *)
(* concatenation, length, ordering and parenthesisation are computed and   *)
(* not assumed.  An optional argument is a sequence of length at most one: *)
(* None is <<>>, a supplied value x is <<x>>.                              *)
(***************************************************************************)
EXTENDS Integers, Sequences, FiniteSets

(***************************************************************************)
(* Bounds of the model.                                                    *)
(***************************************************************************)
\* largest integer drawn as a start/stop argument of Cardinality
MaxN == 11
\* no call that allocates is made once this many Ezre objects are alive
\* (Begin and End included); the deeper specification allows one more
MaxNodes == 3
\* number of objects a client lets go of
MaxDrops == 1
\* number of objects a client relabels with as_
MaxRelabels == 1
\* longest input sequence handed to from_sequence
MaxSeqLen == 3

None == <<>>
Some(x) == <<x>>

\* float("inf"): larger than every integer the model draws
oo == 1000

(***************************************************************************)
(* Text helpers: str(int), code points, string comparison, join.           *)
(***************************************************************************)
DigitChars == <<"0", "1", "2", "3", "4", "5", "6", "7", "8", "9">>

RECURSIVE NatStr(_)
NatStr(n) ==
    IF n < 10 THEN <<DigitChars[n + 1]>>
    ELSE NatStr(n \div 10) \o <<DigitChars[(n % 10) + 1]>>

\* format of an int inside an f-string
IntStr(n) == IF n < 0 THEN <<"-">> \o NatStr(-n) ELSE NatStr(n)

\* ord() of the characters the model uses
Ord(c) ==
    CASE c = "$" -> 36
      [] c = "(" -> 40
      [] c = ")" -> 41
      [] c = "*" -> 42
      [] c = "+" -> 43
      [] c = "," -> 44
      [] c = "?" -> 63
      [] c = "A" -> 65
      [] c = "B" -> 66
      [] c = "C" -> 67
      [] c = "\\" -> 92
      [] c = "^" -> 94
      [] c = "a" -> 97
      [] c = "b" -> 98
      [] c = "c" -> 99
      [] c = "{" -> 123
      [] c = "|" -> 124
      [] c = "}" -> 125
      [] OTHER -> 0

\* str.__lt__: lexicographic by code point, a proper prefix is smaller
RECURSIVE StrLess(_, _)
StrLess(s, t) ==
    IF t = <<>> THEN FALSE
    ELSE IF s = <<>> THEN TRUE
    ELSE IF Ord(Head(s)) # Ord(Head(t)) THEN Ord(Head(s)) < Ord(Head(t))
    ELSE StrLess(Tail(s), Tail(t))

\* sep.join(parts)
RECURSIVE Join(_, _)
Join(sep, parts) ==
    IF parts = <<>> THEN <<>>
    ELSE IF Len(parts) = 1 THEN parts[1]
    ELSE parts[1] \o sep \o Join(sep, Tail(parts))

(***************************************************************************)
(* Cardinality                                                             *)
(***************************************************************************)
\* slice(*slice_args): one argument is the stop, two are start and stop
Slice(slice_args) ==
    IF Len(slice_args) = 1
    THEN [start |-> None, stop |-> slice_args[1], step |-> None]
    ELSE IF Len(slice_args) = 2
    THEN [start |-> slice_args[1], stop |-> slice_args[2], step |-> None]
    ELSE [start |-> slice_args[1], stop |-> slice_args[2], step |-> slice_args[3]]

StepErrorMsg == "IndexError: step not in MinMax"
RangeErrorMsg == "IndexError: 0 <= start <= stop must hold"
GreedinessErrorMsg == "ValueError: step cannot be used when start == stop"

\* a plausible slip: the range is tested before the step
CardinalityConditionsRangeFirst(start, stop, step) ==
    IF ~(0 <= start /\ start <= stop) THEN RangeErrorMsg
    ELSE IF step \notin {"min", "max"} THEN StepErrorMsg
    ELSE IF start = stop /\ step = "min" THEN GreedinessErrorMsg
    ELSE ""

\* the "conditions" chain of Cardinality.__init__; "" when nothing is raised
CardinalityConditions(start, stop, step) ==
    IF step \notin {"min", "max"} THEN StepErrorMsg
    ELSE IF ~(0 <= start /\ start <= stop) THEN RangeErrorMsg
    ELSE IF start = stop /\ step = "min" THEN GreedinessErrorMsg
    ELSE ""

\* a plausible slip: the start == stop test is made for start == 0 as well
CardinalityWorkFixedFirst(start, stop, step) ==
    LET base ==
          IF start = stop /\ start # 1 THEN <<"{">> \o IntStr(start) \o <<"}">>
          ELSE IF start = 0 THEN
              IF stop = 1 THEN <<"?">>
              ELSE IF stop = oo THEN <<"*">>
              ELSE <<"{", ",">> \o IntStr(stop) \o <<"}">>
          ELSE IF start = 1 THEN
              IF stop = 1 THEN <<>>
              ELSE IF stop = oo THEN <<"+">>
              ELSE <<"{">> \o IntStr(start) \o <<",">> \o IntStr(stop) \o <<"}">>
          ELSE
              IF stop = oo THEN <<"{">> \o IntStr(start) \o <<",", "}">>
              ELSE <<"{">> \o IntStr(start) \o <<",">> \o IntStr(stop) \o <<"}">>
    IN  IF start # stop /\ step = "min" THEN base \o <<"?">> ELSE base

\* the "actual work" and "non-greedy option" of Cardinality.__init__
CardinalityWork(start, stop, step) ==
    LET base ==
          IF start = 0 THEN
              IF stop = 1 THEN <<"?">>
              ELSE IF stop = oo THEN <<"*">>
              ELSE <<"{", ",">> \o IntStr(stop) \o <<"}">>
          ELSE IF start = 1 THEN
              IF stop = 1 THEN <<>>
              ELSE IF stop = oo THEN <<"+">>
              ELSE <<"{">> \o IntStr(start) \o <<",">> \o IntStr(stop) \o <<"}">>
          ELSE
              IF start = stop THEN <<"{">> \o IntStr(start) \o <<"}">>
              ELSE IF stop = oo THEN <<"{">> \o IntStr(start) \o <<",", "}">>
              ELSE <<"{">> \o IntStr(start) \o <<",">> \o IntStr(stop) \o <<"}">>
    IN  IF start # stop /\ step = "min" THEN base \o <<"?">> ELSE base

\* Cardinality(*slice_args): err is "" and obj holds the new value, or err
\* names the exception raised and obj is empty
CardinalityInit(slice_args) ==
    LET slice_ == Slice(slice_args)
        start == IF slice_.start = None THEN 0 ELSE slice_.start[1]
        stop == IF slice_.stop = None THEN oo ELSE slice_.stop[1]
        step == IF slice_.step = None THEN "max" ELSE slice_.step[1]
        err == CardinalityConditions(start, stop, step)
    IN  IF err # "" THEN [err |-> err, obj |-> None]
        ELSE [err |-> "",
              obj |-> Some([start |-> start, stop |-> stop, step |-> step,
                            str |-> CardinalityWork(start, stop, step)])]

\* Cardinality.__eq__ between two Cardinality values
CardinalityEq(self, other) == self.str = other.str

\* class CARDINALITY
CARDINALITY_One == CardinalityInit(<<Some(1), Some(1)>>).obj[1]
CARDINALITY_Many == CardinalityInit(<<Some(1), None>>).obj[1]
CARDINALITY_Any == CardinalityInit(<<None>>).obj[1]
CARDINALITY_Maybe == CardinalityInit(<<Some(1)>>).obj[1]

(***************************************************************************)
(* Label                                                                   *)
(***************************************************************************)
\* Label(Var(text))
LabelVar(text) == [kind |-> "Var", text |-> text, items |-> <<>>]

\* Label.__add__: Label(Label.And(self, other))
LabelAdd(self, other) == [kind |-> "And", text |-> <<>>, items |-> <<self, other>>]

\* Label.__or__: Label(Label.Or(self, other))
LabelOr(self, other) == [kind |-> "Or", text |-> <<>>, items |-> <<self, other>>]

\* Label.__repr__, through Label.And.__repr__ and Label.Or.__repr__
RECURSIVE LabelRepr(_)
LabelRepr(l) ==
    IF l.kind = "Var" THEN l.text
    ELSE LET parts == [i \in 1..Len(l.items) |-> LabelRepr(l.items[i])]
         IN  IF l.kind = "And" THEN Join(<<>>, parts)
             ELSE IF Len(l.items) > 1
                  THEN <<"(">> \o Join(<<"|">>, parts) \o <<")">>
                  ELSE Join(<<"|">>, parts)

(***************************************************************************)
(* Ezre: the state                                                         *)
(*                                                                         *)
(* nodes      every Ezre object ever allocated, by handle (allocation      *)
(*            order); live is FALSE once the object has been collected     *)
(* exprs      the objects a node's _expr refers to: a str, an Ezre.And or  *)
(*            an Ezre.Or, by handle                                        *)
(* instances  Ezre._instances, the weak registry: id -> node handle        *)
(* ret        the last call and the object it returned                     *)
(* cardArgs, cardOut   the arguments of a Cardinality(...) call and its    *)
(*            outcome                                                      *)
(* seqIn      the sequence handed to from_sequence                         *)
(* limit      the number of live objects at which the client stops         *)
(*            building; fixed by the initial state                         *)
(* built      history: the call that built each object, by handle          *)
(* relabeled  history: the objects the client has called as_ on            *)
(***************************************************************************)
VARIABLES nodes, exprs, instances, ret, cardArgs, cardOut, seqIn, limit,
          built, relabeled

vars == <<nodes, exprs, instances, ret, cardArgs, cardOut, seqIn, limit,
          built, relabeled>>

Heap == [nodes |-> nodes, exprs |-> exprs, instances |-> instances]

EmptyHeap == [nodes |-> <<>>, exprs |-> <<>>, instances |-> <<>>]

\* Ezre.get_re applied to each item
ItemRes(h, items) == [i \in 1..Len(items) |-> h.nodes[items[i]].re]

\* a plausible slip: the parentheses of an alternation are left out
OrReBare(h, items) == Join(<<"|">>, ItemRes(h, items))

\* Ezre.Or.__init__: the re attribute
OrRe(h, items) ==
    LET re_ == Join(<<"|">>, ItemRes(h, items))
    IN  IF Len(items) > 1 THEN <<"(">> \o re_ \o <<")">> ELSE re_

\* Ezre.And.__init__: the re attribute
AndRe(h, items) == Join(<<>>, ItemRes(h, items))

\* a str object used as expr, allocated by the caller
NewStr(h, text) ==
    [h EXCEPT !.exprs = Append(@, [kind |-> "str", text |-> text, items |-> <<>>])]

\* Ezre.And(*items)
NewAnd(h, items) ==
    [h EXCEPT !.exprs = Append(@, [kind |-> "And", text |-> AndRe(h, items),
                                   items |-> items])]

\* Ezre.Or(*items)
NewOr(h, items) ==
    [h EXCEPT !.exprs = Append(@, [kind |-> "Or", text |-> OrRe(h, items),
                                   items |-> items])]

\* the label a str or Label argument of as_ stands for
AsLabel(label) == IF label.type = "str" THEN LabelVar(label.val) ELSE label.val

\* "label or ...": None and the empty string are falsy, a Label is not
Falsy(label) == label = None \/ (label[1].type = "str" /\ label[1].val = <<>>)

\* Ezre.__init__(expr, label=label, cardinality=cardinality); the new object's
\* handle is Len(h.nodes) + 1
EzreInit(h, expr, label, cardinality) ==
    LET self == Len(h.nodes) + 1
        id == Cardinality(DOMAIN h.instances)
        lab == IF Falsy(label) THEN [type |-> "str", val |-> <<"#">> \o IntStr(id)]
               ELSE label[1]
        card == IF cardinality = None THEN CARDINALITY_One ELSE cardinality[1]
        re_ == h.exprs[expr].text \o card.str
    IN  [h EXCEPT
           !.instances = [k \in (DOMAIN h.instances) \cup {id} |->
                             IF k = id THEN self ELSE h.instances[k]],
           !.nodes = Append(@, [id |-> id, label |-> AsLabel(lab), expr |-> expr,
                                cardinality |-> card, re |-> re_, live |-> TRUE])]

\* Ezre.from_str(expr, label=label, cardinality=cardinality)
FromStrF(h, text, label, cardinality) ==
    LET h1 == NewStr(h, text)
    IN  EzreInit(h1, Len(h1.exprs), label, cardinality)

StrLabel(s) == Some([type |-> "str", val |-> s])
ObjLabel(l) == Some([type |-> "Label", val |-> l])

\* class EZRE, built when the module is imported: Begin is node 1, End node 2
InitHeap ==
    FromStrF(FromStrF(EmptyHeap, <<"^">>, StrLabel(<<"^">>), None),
             <<"$">>, StrLabel(<<"$">>), None)

Begin == 1
End == 2

NoRet == [op |-> "", self |-> 0, arg |-> <<>>, val |-> 0]

\* the state once the module is imported
Imported ==
    /\ nodes = InitHeap.nodes
    /\ exprs = InitHeap.exprs
    /\ instances = InitHeap.instances
    /\ ret = NoRet
    /\ built = <<"from_str", "from_str">>
    /\ relabeled = {}

Init ==
    /\ Imported
    /\ cardArgs = <<>>
    /\ cardOut = <<>>
    /\ seqIn = <<>>
    /\ limit = MaxNodes

SetHeap(h) ==
    /\ nodes' = h.nodes
    /\ exprs' = h.exprs
    /\ instances' = h.instances

\* the objects a call has added were built by from_str, but for the last,
\* which the call op itself built
Records(h, op) ==
    built' = [n \in 1..Len(h.nodes) |->
                 IF n <= Len(nodes) THEN built[n]
                 ELSE IF n = Len(h.nodes) THEN op ELSE "from_str"]

Live == {n \in 1..Len(nodes) : nodes[n].live}

(***************************************************************************)
(* Ezre: construction from literals                                        *)
(***************************************************************************)
\* the characters re.escape puts a backslash before
SpecialChars ==
    {"(", ")", "[", "]", "{", "}", "?", "*", "+", "-", "|", "^", "$", "\\",
     ".", "&", "~", "#", " "}

\* re.escape(item)
RECURSIVE Escape(_)
Escape(item) ==
    IF item = <<>> THEN <<>>
    ELSE (IF Head(item) \in SpecialChars THEN <<"\\", Head(item)>> ELSE <<Head(item)>>)
         \o Escape(Tail(item))

\* a plausible slip: the minus sign of the length is forgotten
string_key_ascending(item) == [len |-> Len(item), item |-> item]

\* Ezre.string_key(item): the tuple (-len(item), item)
string_key(item) == [len |-> -Len(item), item |-> item]

\* tuple.__lt__ on two such keys
KeyLess(k1, k2) ==
    \/ k1.len < k2.len
    \/ k1.len = k2.len /\ StrLess(k1.item, k2.item)

\* sorted(S, key=string_key) of a set of distinct strings
RECURSIVE Sorted(_)
Sorted(S) ==
    IF S = {} THEN <<>>
    ELSE LET first == CHOOSE x \in S :
                         \A y \in S \ {x} : KeyLess(string_key(x), string_key(y))
         IN  <<first>> \o Sorted(S \ {first})

\* map(cls.from_str, items): one leaf per item, in order
RECURSIVE FromStrAll(_, _)
FromStrAll(h, items) ==
    IF items = <<>> THEN h
    ELSE FromStrAll(FromStrF(h, Head(items), None, None), Tail(items))

\* set(map(re.escape, expr))
EscapedSet(expr) == {Escape(expr[i]) : i \in 1..Len(expr)}

\* Ezre.from_sequence(expr, label=label, cardinality=cardinality)
FromSequenceF(h, expr, label, cardinality) ==
    LET items == Sorted(EscapedSet(expr))
        h1 == FromStrAll(h, items)
        leaves == [i \in 1..Len(items) |-> Len(h.nodes) + i]
        h2 == NewOr(h1, leaves)
    IN  EzreInit(h2, Len(h2.exprs), label, cardinality)

(***************************************************************************)
(* Ezre: the operations, as functions of the heap                          *)
(***************************************************************************)
\* Ezre.__add__(self, other) with other an Ezre
AddF(h, self, other) ==
    LET h1 == NewAnd(h, <<self, other>>)
    IN  EzreInit(h1, Len(h1.exprs),
                 ObjLabel(LabelAdd(h.nodes[self].label, h.nodes[other].label)), None)

\* Ezre.__or__(self, other)
OrF(h, self, other) ==
    LET h1 == NewOr(h, <<self, other>>)
    IN  EzreInit(h1, Len(h1.exprs),
                 ObjLabel(LabelOr(h.nodes[self].label, h.nodes[other].label)), None)

\* Ezre.group(self, name)
GroupF(h, self, name) ==
    LET h1 == FromStrF(h, <<"(", "?", "P", "<">> \o name \o <<">">>, None, None)
        start == Len(h1.nodes)
        h2 == FromStrF(h1, <<")">>, None, None)
        end == Len(h2.nodes)
        h3 == NewAnd(h2, <<start, self, end>>)
    IN  EzreInit(h3, Len(h3.exprs), ObjLabel(h.nodes[self].label), None)

\* a plausible slip: relabeling runs the constructor's defaults again
AsFReinit(h, self, label) ==
    [h EXCEPT !.nodes[self].label = AsLabel(label),
              !.nodes[self].cardinality = CARDINALITY_One,
              !.nodes[self].re = h.exprs[h.nodes[self].expr].text]

\* Ezre.as_(self, label)
AsF(h, self, label) ==
    [h EXCEPT !.nodes[self].label = AsLabel(label)]

\* an Ezre object is collected: the weak registry loses the entry that
\* refers to it, if one still does
DropF(h, n) ==
    LET keep == {k \in DOMAIN h.instances : h.instances[k] # n}
    IN  [h EXCEPT !.nodes[n].live = FALSE,
                  !.instances = [k \in keep |-> h.instances[k]]]

\* some live object's And/Or holds a reference to n
Held(n) ==
    \E m \in Live : \E i \in 1..Len(exprs[nodes[m].expr].items) :
        exprs[nodes[m].expr].items[i] = n

(***************************************************************************)
(* The calls a client makes                                                *)
(***************************************************************************)
Texts == {<<"A">>, <<"a", "b">>}
LabelArgs == {None, StrLabel(<<"a">>)}
CardinalityArgs == {None, Some(CARDINALITY_Many)}
GroupNames == {<<"n">>}
NewLabels == {<<"z">>}
IntArgs == {1, 2}
SliceArgs == {<<None, None, None>>, <<Some(1), Some(1), None>>,
              <<Some(2), Some(2), Some("min")>>}
CardinalityObjs == {CARDINALITY_One, CARDINALITY_Maybe}
SequenceArgs == {<<<<"b">>, <<"a">>>>, <<<<"a">>, <<"a">>>>}

\* the model's bound on allocating calls
Room == Cardinality(Live) < limit

Frame == UNCHANGED <<cardArgs, cardOut, seqIn, limit>>

SameHistory == UNCHANGED <<built, relabeled>>

Returned(op, self, arg, val) ==
    ret' = [op |-> op, self |-> self, arg |-> arg, val |-> val]

FromStr(text, label, cardinality) ==
    /\ Room
    /\ LET h == FromStrF(Heap, text, label, cardinality)
       IN  SetHeap(h) /\ Records(h, "from_str") /\ ret' = NoRet
    /\ UNCHANGED relabeled
    /\ Frame

FromSequence(expr, label, cardinality) ==
    /\ Room
    /\ LET h == FromSequenceF(Heap, expr, label, cardinality)
       IN  /\ SetHeap(h)
           /\ Records(h, "from_sequence")
           /\ Returned("from_sequence", 0, <<>>, Len(h.nodes))
    /\ UNCHANGED relabeled
    /\ Frame

\* self + other; other None stands for EZRE.End
Add(self, other) ==
    /\ Room
    /\ self \in Live
    /\ IF other = None THEN TRUE ELSE other[1] \in Live
    /\ LET h == AddF(Heap, self, IF other = None THEN End ELSE other[1])
       IN  SetHeap(h) /\ Records(h, "add") /\ ret' = NoRet
    /\ UNCHANGED relabeled
    /\ Frame

\* None + self: Ezre.__radd__
RAdd(self) ==
    /\ Room
    /\ self \in Live
    /\ LET h == AddF(Heap, Begin, self)
       IN  SetHeap(h) /\ Records(h, "add") /\ ret' = NoRet
    /\ UNCHANGED relabeled
    /\ Frame

Or(self, other) ==
    /\ Room
    /\ self \in Live
    /\ other \in Live
    /\ LET h == OrF(Heap, self, other)
       IN  SetHeap(h) /\ Records(h, "or") /\ ret' = NoRet
    /\ UNCHANGED relabeled
    /\ Frame

\* a plausible slip: no short cut for "exactly one"
GetItemAlwaysNew(self, made) ==
    /\ self \in Live
    /\ \/ /\ made.err # ""
          /\ UNCHANGED vars
       \/ /\ made.err = ""
          /\ Room
          /\ LET cardinality == made.obj[1]
                 h == EzreInit(Heap, nodes[self].expr,
                               ObjLabel(LabelAdd(nodes[self].label,
                                                 LabelVar(cardinality.str))),
                               Some(cardinality))
             IN  /\ SetHeap(h)
                 /\ Records(h, "getitem")
                 /\ Returned("getitem", self, <<cardinality>>, Len(h.nodes))
          /\ UNCHANGED relabeled
          /\ Frame

\* self[cardinality]; made is the outcome of the "typing" step, which builds
\* a Cardinality from an int or a slice and may raise
GetItem(self, made) ==
    /\ self \in Live
    /\ \/ /\ made.err # ""
          /\ UNCHANGED vars
       \/ /\ made.err = ""
          /\ CardinalityEq(made.obj[1], CARDINALITY_One)
          /\ Returned("getitem", self, <<made.obj[1]>>, self)
          /\ UNCHANGED <<nodes, exprs, instances>>
          /\ SameHistory
          /\ Frame
       \/ /\ made.err = ""
          /\ ~CardinalityEq(made.obj[1], CARDINALITY_One)
          /\ Room
          /\ LET cardinality == made.obj[1]
                 h == EzreInit(Heap, nodes[self].expr,
                               ObjLabel(LabelAdd(nodes[self].label,
                                                 LabelVar(cardinality.str))),
                               Some(cardinality))
             IN  /\ SetHeap(h)
                 /\ Records(h, "getitem")
                 /\ Returned("getitem", self, <<cardinality>>, Len(h.nodes))
          /\ UNCHANGED relabeled
          /\ Frame

Group(self, name) ==
    /\ Room
    /\ self \in Live
    /\ LET h == GroupF(Heap, self, name)
       IN  SetHeap(h) /\ Records(h, "group") /\ ret' = NoRet
    /\ UNCHANGED relabeled
    /\ Frame

As(self, label) ==
    /\ self \in Live
    /\ self \in relabeled \/ Cardinality(relabeled) < MaxRelabels
    /\ SetHeap(AsF(Heap, self, label))
    /\ Returned("as_", self, <<>>, self)
    /\ relabeled' = relabeled \cup {self}
    /\ UNCHANGED built
    /\ Frame

\* the client lets go of an object nothing else refers to
Drop(n) ==
    /\ n \in Live \ {Begin, End}
    /\ ~Held(n)
    /\ Len(nodes) - Cardinality(Live) < MaxDrops
    /\ SetHeap(DropF(Heap, n))
    /\ ret' = NoRet
    /\ SameHistory
    /\ Frame

Next ==
    \/ \E text \in Texts, label \in LabelArgs, cardinality \in CardinalityArgs :
          FromStr(text, label, cardinality)
    \/ \E expr \in SequenceArgs : FromSequence(expr, None, None)
    \/ \E self \in Live, other \in Live : Add(self, Some(other))
    \/ \E self \in Live : Add(self, None)
    \/ \E self \in Live : RAdd(self)
    \/ \E self \in Live, other \in Live : Or(self, other)
    \/ \E self \in Live, k \in IntArgs :
          GetItem(self, CardinalityInit(<<Some(k), Some(k)>>))
    \/ \E self \in Live, s \in SliceArgs : GetItem(self, CardinalityInit(s))
    \/ \E self \in Live, c \in CardinalityObjs :
          GetItem(self, [err |-> "", obj |-> Some(c)])
    \/ \E self \in Live, name \in GroupNames : Group(self, name)
    \/ \E self \in Live, s \in NewLabels : As(self, StrLabel(s)[1])

\* a client that keeps every object it builds
Spec == Init /\ [][Next]_vars

InitDeep ==
    /\ Imported
    /\ cardArgs = <<>>
    /\ cardOut = <<>>
    /\ seqIn = <<>>
    /\ limit = MaxNodes + 1

\* the same client, building one object more
SpecDeep == InitDeep /\ [][Next]_vars

\* a client that builds objects and lets some of them go
NextRegistry ==
    \/ \E text \in Texts : FromStr(text, None, None)
    \/ \E self \in Live, other \in Live : Add(self, Some(other))
    \/ \E self \in Live, k \in IntArgs :
          GetItem(self, CardinalityInit(<<Some(k), Some(k)>>))
    \/ \E n \in Live : Drop(n)

SpecRegistry == InitDeep /\ [][NextRegistry]_vars

(***************************************************************************)
(* Cardinality on its own: one call of Cardinality on cardArgs              *)
(***************************************************************************)
BoundArgs == {None} \cup {Some(n) : n \in -1..MaxN}
StepArgs == {None, Some("min"), Some("max"), Some("1")}
CardinalityCalls ==
    {<<stop>> : stop \in BoundArgs}
    \cup {<<start, stop>> : start \in BoundArgs, stop \in BoundArgs}
    \cup {<<start, stop, step>> :
             start \in BoundArgs, stop \in BoundArgs, step \in StepArgs}

InitCard ==
    /\ Imported
    /\ cardArgs \in CardinalityCalls
    /\ cardOut = <<>>
    /\ seqIn = <<>>
    /\ limit = MaxNodes

MakeCardinality ==
    /\ cardArgs # <<>>
    /\ cardOut = <<>>
    /\ cardOut' = <<CardinalityInit(cardArgs)>>
    /\ UNCHANGED <<nodes, exprs, instances, ret, cardArgs, seqIn, limit>>
    /\ SameHistory

NextCard == MakeCardinality

SpecCard == InitCard /\ [][NextCard]_vars

(***************************************************************************)
(* from_sequence on its own: one call Ezre.from_sequence(seqIn)            *)
(***************************************************************************)
Literals == {<<"a">>, <<"a", "b">>, <<"c">>, <<"*">>, <<"a", "*">>}

RECURSIVE SeqsUpTo(_)
SeqsUpTo(n) ==
    IF n = 0 THEN {<<>>}
    ELSE LET shorter == SeqsUpTo(n - 1)
         IN  shorter \cup {Append(q, x) : q \in shorter, x \in Literals}

InitSeq ==
    /\ Imported
    /\ cardArgs = <<>>
    /\ cardOut = <<>>
    /\ seqIn \in SeqsUpTo(MaxSeqLen)
    /\ limit = MaxNodes

CallFromSequence ==
    /\ ret = NoRet
    /\ FromSequence(seqIn, None, None)

NextSeq == CallFromSequence

SpecSeq == InitSeq /\ [][NextSeq]_vars

(***************************************************************************)
(* The arguments of a Cardinality call as the caller means them            *)
(***************************************************************************)
Made == cardOut # <<>>
Built == Made /\ cardOut[1].err = ""

GivenStart == IF Len(cardArgs) >= 2 /\ cardArgs[1] # None THEN cardArgs[1][1] ELSE 0
GivenStopArg == IF Len(cardArgs) = 1 THEN cardArgs[1] ELSE cardArgs[2]
Unbounded == GivenStopArg = None
GivenStop == IF Unbounded THEN 0 ELSE GivenStopArg[1]
GivenStep == IF Len(cardArgs) = 3 /\ cardArgs[3] # None THEN cardArgs[3][1] ELSE "max"

RangeHolds == 0 <= GivenStart /\ (Unbounded \/ GivenStart <= GivenStop)
FixedCount == ~Unbounded /\ GivenStart = GivenStop

Braces(body) == <<"{">> \o body \o <<"}">>

\* the rows of the quantifier table that apply to (start, stop); zeroRow says
\* which finite stops the row "start 0, stop n" takes
TableRows(zeroRow) ==
    LET m == GivenStart
        n == GivenStop
        row(cond, text) == IF cond THEN {text} ELSE {}
    IN  row(m = 0 /\ ~Unbounded /\ n = 1, <<"?">>)
        \cup row(m = 0 /\ Unbounded, <<"*">>)
        \cup row(m = 0 /\ ~Unbounded /\ n \in zeroRow, Braces(<<",">> \o IntStr(n)))
        \cup row(m = 1 /\ ~Unbounded /\ n = 1, <<>>)
        \cup row(m = 1 /\ Unbounded, <<"+">>)
        \cup row(m = 1 /\ ~Unbounded /\ n > 1, Braces(IntStr(m) \o <<",">> \o IntStr(n)))
        \cup row(m > 1 /\ ~Unbounded /\ n = m, Braces(IntStr(m)))
        \cup row(m > 1 /\ Unbounded, Braces(IntStr(m) \o <<",">>))
        \cup row(m > 1 /\ ~Unbounded /\ n # m, Braces(IntStr(m) \o <<",">> \o IntStr(n)))

LazyMark == IF ~FixedCount /\ GivenStep = "min" THEN <<"?">> ELSE <<>>

Rendered(rows) ==
    Built => /\ rows # {}
             /\ \A text \in rows : cardOut[1].obj[1].str = text \o LazyMark

\* C2 as stated: every Cardinality that is built renders as its row of the
\* table says, the row "start 0, stop n" being for n > 1, followed by "?"
\* exactly when start != stop and step is min; and some row applies.
C2_TableAsStated == Rendered(TableRows({n \in 0..MaxN + 1 : n > 1}))

\* C2 amended: the same, the row "start 0, stop n" being for every finite
\* n other than 1, so that (0, 0) renders "{,0}".
C2_Table == Rendered(TableRows({n \in 0..MaxN + 1 : n # 1}))

\* Cardinality(0, 0) has been built
C2_Witness ==
    /\ Built
    /\ GivenStart = 0 /\ FixedCount
    /\ cardOut[1].obj[1].str = <<"{", ",", "0", "}">>

RECURSIVE ClosesAt(_, _, _)
ClosesAt(t, i, depth) ==
    IF i > Len(t) THEN 0
    ELSE IF t[i] = "\\" THEN ClosesAt(t, i + 2, depth)
    ELSE IF t[i] = "(" THEN ClosesAt(t, i + 1, depth + 1)
    ELSE IF t[i] = ")" THEN (IF depth = 1 THEN i ELSE ClosesAt(t, i + 1, depth - 1))
    ELSE ClosesAt(t, i + 1, depth)

\* a quantifier repeats the atom before it: one character, one escaped
\* character, or one parenthesised group; t is a single atom
SingleAtom(t) ==
    \/ Len(t) = 1 /\ t[1] \notin {"(", ")", "|", "\\"}
    \/ Len(t) = 2 /\ t[1] = "\\"
    \/ Len(t) >= 2 /\ t[1] = "(" /\ ClosesAt(t, 2, 1) = Len(t)

Trivial(cardinality) == CardinalityEq(cardinality, CARDINALITY_One)

ExprOf(n) == exprs[nodes[n].expr]

\* the last call was self[c] and built a new object
Recardinalized == ret.op = "getitem" /\ ret.val # ret.self

\* C1: in the pattern of n[c], c other than "exactly one", the quantifier
\* repeats the whole text of n's expression: the pattern is that text, a
\* single atom, followed by the quantifier.
C1_QuantifierScope ==
    Recardinalized =>
        /\ nodes[ret.val].re = ExprOf(ret.self).text \o ret.arg[1].str
        /\ SingleAtom(ExprOf(ret.self).text)

(***************************************************************************)
(* The registry                                                            *)
(***************************************************************************)
\* C4: ids are handed out in increasing order, so that no two live objects
\* share an id and every live object is the registry's entry for its id.
C4_LiveIdsDistinct ==
    /\ \A m \in Live, n \in Live : m # n => nodes[m].id # nodes[n].id
    /\ \A n \in Live : nodes[n].id \in DOMAIN instances
                       /\ instances[nodes[n].id] = n

(***************************************************************************)
(* Re-cardinalization                                                      *)
(***************************************************************************)
\* C5: the object n[c] returns has cardinality c, whatever the cardinality
\* of n and also for c "exactly one".
C5_DesiredCardinality ==
    ret.op = "getitem" => CardinalityEq(nodes[ret.val].cardinality, ret.arg[1])

IsProperPrefix(p, q) == Len(p) < Len(q) /\ SubSeq(q, 1, Len(p)) = p

\* C7: from_sequence(seqIn) renders the escaped items, each once, the longer
\* before the shorter and equal lengths in lexicographic order, joined by
\* "|" and parenthesised when more than one remains; so a literal stands
\* before every proper prefix of it.
C7_FromSequence ==
    ret.op = "from_sequence" =>
        LET items == ExprOf(ret.val).items
            alt == [i \in 1..Len(items) |-> nodes[items[i]].re]
            escaped == {Escape(seqIn[k]) : k \in 1..Len(seqIn)}
            place(x) == CHOOSE i \in 1..Len(alt) : alt[i] = Escape(x)
        IN  /\ {alt[i] : i \in 1..Len(alt)} = escaped
            /\ Len(alt) = Cardinality(escaped)
            /\ \A i \in 1..Len(alt), j \in 1..Len(alt) :
                  i < j => \/ Len(alt[i]) > Len(alt[j])
                           \/ Len(alt[i]) = Len(alt[j]) /\ StrLess(alt[i], alt[j])
            /\ nodes[ret.val].re =
                  (IF Len(alt) > 1 THEN <<"(">> \o Join(<<"|">>, alt) \o <<")">>
                   ELSE Join(<<"|">>, alt))
            /\ \A k \in 1..Len(seqIn), l \in 1..Len(seqIn) :
                  IsProperPrefix(seqIn[k], seqIn[l])
                      => place(seqIn[l]) < place(seqIn[k])

\* from_sequence(["c", "a", "ab"]) has rendered "(ab|a|c)"
C7_Witness ==
    /\ ret.op = "from_sequence"
    /\ seqIn = <<<<"c">>, <<"a">>, <<"a", "b">>>>
    /\ nodes[ret.val].re = <<"(", "a", "b", "|", "a", "|", "c", ")">>

C10_LabelFromChildren ==
    \A p \in Live \ relabeled :
        LET items == ExprOf(p).items
            a == LabelRepr(nodes[items[1]].label)
            b == LabelRepr(nodes[items[2]].label)
        IN  /\ built[p] = "add" => LabelRepr(nodes[p].label) = a \o b
            /\ built[p] = "or" =>
                 LabelRepr(nodes[p].label) = <<"(">> \o a \o <<"|">> \o b \o <<")">>

=============================================================================
